---- MODULE Spec2Model ----
(***************************************************************************)
(* boost::interprocess::file_mutex (include/boost/interprocess/sync/       *)
(* file_mutex.hpp): a mutex-shaped adapter over boost::interprocess::      *)
(* file_lock.  The model holds a small filesystem (directory entries and   *)
(* file identities), the table of open lock-file handles with the lock     *)
(* each one holds, and a set of file_mutex objects spread over processes.  *)
(***************************************************************************)
EXTENDS Naturals, Sequences, FiniteSets, TLC

\* ------------------------------------------------------------------ bounds
NumInsts == 3
NumProcs == 2
MaxSize == 1
MaxLive == 2

\* ----------------------------------------------------------------- domains
Insts == 1..NumInsts
Procs == 1..NumProcs
Handles == 1..NumInsts
\* example/main.cpp:19: the runs of the example, named by their argv[1]
Writers == {"A", "B"}

\* file_mutex.hpp:55, the defaulted second constructor argument
DefaultSuffix == ".lock"
Targets == {"t"}
\* The suffixes passed: the default one, and the empty one, with which the lock
\* file is the target file itself.
Suffixes == {DefaultSuffix, ""}

build_file_lock_path_drops_suffix(file_path, suffix) == file_path

\* file_mutex.hpp:147-150: file_path += suffix appends the suffix's characters
build_file_lock_path(file_path, suffix) == file_path \o suffix

\* Every name a caller can pass or a construction can derive.
AllPaths == Targets \cup {p \o s : p \in Targets, s \in Suffixes}

\* File identities.  The file a directory entry links is named after the path;
\* a file that was unlinked while handles were open on it lives on, named
\* after the lowest of those handles.
NoFile == [path |-> "", orphan |-> 0]
Linked(p) == [path |-> p, orphan |-> 0]
Orphan(p, h) == [path |-> p, orphan |-> h]
InvalidHandle == 0
Modes == {"none", "sh", "ex"}
AbsTimes == {"past", "future"}

VARIABLES
  fs,           \* directory: path -> whether a file is linked there
  fsize,        \* path -> bytes of content of the file linked there
  h_file,       \* handle -> the file it is open on, NoFile when closed
  claim,        \* handle -> lock taken through it that the OS still holds
  held,         \* handle -> ownership the API reported to its caller
  life,         \* object -> "unborn" | "creating" | "constructing" | "live" |
                \*           "destroyed"
  m_file_lock,  \* object -> its member's handle, InvalidHandle when empty
  pend,         \* object -> the blocking call it is inside
  ctor,         \* object -> the arguments of the constructor call it is inside
  proc,         \* object -> the process it lives in
  stream,       \* writer -> the ofstream it has open, what it buffers
  ev            \* the last step taken: the call, its object, its result

vars == <<fs, fsize, h_file, claim, held, life, m_file_lock, pend, ctor, proc,
          stream, ev>>

\* The process an object lives in; objects are only moved or swapped inside it.
ProcOf(i) == proc[i]
\* Objects dealt round over NumProcs processes, so that a process has several.
SharedProcs == [i \in Insts |-> ((i - 1) % NumProcs) + 1]
\* One process per object.
OwnProcs == [i \in Insts |-> i]

\* A writer that has no stream open.
NoStream == [path |-> "", linked |-> FALSE, buf |-> 0]

\* No constructor call in progress. Inside one, tmp is the file the temporary
\* ofstream of line 153 is open on, NoFile when it is not open.
NoCtor == [path |-> "", suffix |-> "", errno |-> "none", tmp |-> NoFile]

NoPend == [op |-> "none", mode |-> "none", api |-> "none", timed |-> FALSE, expired |-> FALSE]
EventOf(op, i, ret, path, suffix, other) ==
  [op |-> op, inst |-> i, ret |-> ret, path |-> path, suffix |-> suffix,
   other |-> other, errno |-> "none"]
Event(op, i, ret, path) == EventOf(op, i, ret, path, "", 0)
Ret(b) == IF b THEN "true" ELSE "false"

\* Reasons for which the operating system fails a call, contention apart.
Errnos == {"ENOLCK"}
\* A call left by an interprocess_exception that carries the system's error.
Thrown(op, i, errno) ==
  [EventOf(op, i, "interprocess_exception", "", "", 0) EXCEPT !.errno = errno]

Owning(i) == life[i] = "live" /\ m_file_lock[i] # InvalidHandle
Idle(i) == life[i] = "live" /\ pend[i].op = "none"

\* ------------------------------------------------------ filesystem helpers
\* Handles are named after the object whose constructor opened them, and live
\* in that object's process.
h_proc(h) == ProcOf(h)

\* filesystem::ofstream(lock_path, app), file_mutex.hpp:153: creates the file
\* when it is absent, never truncates, and is closed at once.
OpenAppend(dir, lock_path) == [dir EXCEPT ![lock_path] = TRUE]

\* The handles the process of h has open on the file h is open on, h included.
Siblings(h) ==
  {h2 \in Handles : h_file[h2] # NoFile /\ h_file[h2] = h_file[h]
                    /\ h_proc(h2) = h_proc(h)}

\* The operating system keeps a lock for a process and a file, not for a
\* handle: the locks after process p closes any descriptor it has on file f.
\* All the locks p has on f are dropped.
ClosedBy(p, f) ==
  [h \in Handles |->
     IF f # NoFile /\ h_file[h] = f /\ h_proc(h) = p THEN "none" ELSE claim[h]]

\* The locks after mode m is granted through handle h: the lock of the
\* process on the file becomes m, for every handle of it that had one.
Granted(h, m) ==
  [h2 \in Handles |->
     IF h2 = h \/ (h2 \in Siblings(h) /\ claim[h2] # "none") THEN m ELSE claim[h2]]

\* The locks after a release through handle h: the process has none on the file.
Released(h) == ClosedBy(h_proc(h), h_file[h])

Init ==
  /\ fs = [p \in AllPaths |-> FALSE]
  /\ fsize = [p \in AllPaths |-> 0]
  /\ h_file = [h \in Handles |-> NoFile]
  /\ claim = [h \in Handles |-> "none"]
  /\ held = [h \in Handles |-> "none"]
  /\ life = [i \in Insts |-> "unborn"]
  /\ m_file_lock = [i \in Insts |-> InvalidHandle]
  /\ pend = [i \in Insts |-> NoPend]
  /\ ctor = [i \in Insts |-> NoCtor]
  /\ proc = SharedProcs
  /\ stream = [w \in Writers |-> NoStream]
  /\ ev = Event("init", 0, "void", "")

\* ------------------------------------------------------------- environment
\* Writers are processes of their own that hold no lock on what they write.
\* Bytes the writers' streams still buffer for the file linked at p.
Buffered(p) ==
  LET on == {w \in Writers : stream[w].path = p /\ stream[w].linked}
      RECURSIVE Sum(_)
      Sum(S) == IF S = {} THEN 0
                ELSE LET w == CHOOSE x \in S : TRUE
                     IN stream[w].buf + Sum(S \ {w})
  IN Sum(on)

\* example/main.cpp:11: std::ofstream file(path, std::ios::app) creates the
\* file when it is absent, writes nothing, and stays open.
ofstream_open(w, p) ==
  /\ stream[w] = NoStream
  /\ fs' = OpenAppend(fs, p)
  /\ stream' = [stream EXCEPT ![w] = [path |-> p, linked |-> TRUE, buf |-> 0]]
  /\ ev' = Event("open", 0, "void", p)
  /\ UNCHANGED <<ctor, proc, fsize, h_file, claim, held, life, m_file_lock, pend>>

\* example/main.cpp:19: file << argv[1] << "\n" puts the bytes in the buffer
\* of the stream; the file does not have them yet.
AppendFile(w) ==
  /\ stream[w] # NoStream
  /\ stream[w].linked => fsize[stream[w].path] + Buffered(stream[w].path) < MaxSize
  /\ ~stream[w].linked => stream[w].buf < MaxSize
  /\ stream' = [stream EXCEPT ![w].buf = @ + 1]
  /\ ev' = Event("append", 0, "void", stream[w].path)
  /\ UNCHANGED <<ctor, proc, fs, fsize, h_file, claim, held, life, m_file_lock, pend>>

\* example/main.cpp:22-23: main returns, the stream is destroyed; it writes
\* what it buffered to the end of the file it opened, which is the file at
\* its path unless that one was unlinked meanwhile, and is closed.
ofstream_close(w) ==
  /\ stream[w] # NoStream
  /\ fsize' = IF stream[w].linked
               THEN [fsize EXCEPT ![stream[w].path] = @ + stream[w].buf]
               ELSE fsize
  /\ stream' = [stream EXCEPT ![w] = NoStream]
  /\ ev' = Event("close", 0, "void", stream[w].path)
  /\ UNCHANGED <<ctor, proc, fs, h_file, claim, held, life, m_file_lock, pend>>

\* ------------------------------------------------------------ construction
\* file_mutex.hpp:48
file_mutex_default(i) ==
  /\ life[i] = "unborn"
  /\ life' = [life EXCEPT ![i] = "live"]
  /\ m_file_lock' = [m_file_lock EXCEPT ![i] = InvalidHandle]
  /\ ev' = Event("file_mutex()", i, "void", "")
  /\ UNCHANGED <<stream, ctor, proc, fs, fsize, h_file, claim, held, pend>>

\* What the operating system opposes to an open, each open of a constructor
\* call on its own: nothing ("none"), or the path may not be created or
\* written (EACCES), the process has no descriptor left at that moment
\* (EMFILE), the file may not be opened for the reading and writing a
\* file_lock needs (EPERM).
OfstreamErrnos == {"EACCES", "EMFILE"}
OpenErrnos == {"EACCES", "EMFILE", "EPERM"}
\* filesystem::ofstream(lock_path, app) opens unless it is refused.
OfstreamFails(errno) == errno \in OfstreamErrnos

\* file_mutex.hpp:153: the directory after the ofstream, a temporary whose
\* state nobody looks at.
ofstream_app(dir, lock_path, errno) ==
  IF OfstreamFails(errno) THEN dir ELSE OpenAppend(dir, lock_path)

\* file_mutex.hpp:154: how the open of lock_path by the file_lock constructor
\* ends, "none" when it opens, given what the operating system opposes to it.
\* A process without a free descriptor gets none (EMFILE), a path that may
\* not be walked is refused whether or not the file is there (EACCES), then
\* the file has to be there (ENOENT), and to allow reading and writing.
file_lock_errno(dir, lock_path, errno) ==
  IF errno \in {"EMFILE", "EACCES"} THEN errno
  ELSE IF ~dir[lock_path] THEN "ENOENT"
  ELSE errno

\* file_mutex.hpp:54-56 up to the open of line 153: the constructor is
\* entered, the lock path built, and the temporary ofstream opens lock_path,
\* unless refused with errno. Nothing looks at the state of the stream; ctor
\* keeps it for the claims.
file_mutex_path(i, path, suffix, errno) ==
  /\ life[i] = "unborn"
  /\ LET lock_path == build_file_lock_path(path, suffix)
     IN /\ fs' = ofstream_app(fs, lock_path, errno)
        /\ ctor' = [ctor EXCEPT ![i] =
                      [path |-> path, suffix |-> suffix, errno |-> errno,
                       tmp |-> IF OfstreamFails(errno) THEN NoFile
                               ELSE Linked(lock_path)]]
  /\ life' = [life EXCEPT ![i] = "creating"]
  /\ ev' = EventOf("ofstream", i, "void", path, suffix, 0)
  /\ UNCHANGED <<stream, proc, fsize, h_file, claim, held, m_file_lock, pend>>

\* file_mutex.hpp:153, the end of the statement: the temporary ofstream is
\* destroyed and closes its descriptor, on the file it opened, which may have
\* been unlinked since. That close drops every lock the process holds on
\* that file.
ofstream_app_close(i) ==
  /\ life[i] = "creating"
  /\ claim' = ClosedBy(ProcOf(i), ctor[i].tmp)
  /\ ctor' = [ctor EXCEPT ![i].tmp = NoFile]
  /\ life' = [life EXCEPT ![i] = "constructing"]
  /\ ev' = EventOf("~ofstream", i, "void", ctor[i].path, ctor[i].suffix, 0)
  /\ UNCHANGED <<stream, proc, fs, fsize, h_file, held, m_file_lock, pend>>

\* file_mutex.hpp:154-155 and the member's initialisation at line 56: the
\* file_lock constructor opens lock_path as it is then, and the object exists
\* with that handle; or the open fails, refused with errno or for want of the
\* file, the exception leaves the constructor and no object comes to exist.
file_lock_open(i, errno) ==
  /\ life[i] = "constructing"
  /\ LET c == ctor[i]
         lock_path == build_file_lock_path(c.path, c.suffix)
         err == file_lock_errno(fs, lock_path, errno)
         h == i
     IN IF err = "none"
        THEN /\ h_file' = [h_file EXCEPT ![h] = Linked(lock_path)]
             /\ m_file_lock' = [m_file_lock EXCEPT ![i] = h]
             /\ life' = [life EXCEPT ![i] = "live"]
             /\ ev' = EventOf("file_mutex(path)", i, "void", c.path, c.suffix, 0)
        ELSE /\ life' = [life EXCEPT ![i] = "unborn"]
             /\ ev' = [EventOf("file_mutex(path)", i, "interprocess_exception",
                               c.path, c.suffix, 0) EXCEPT !.errno = err]
             /\ UNCHANGED <<h_file, m_file_lock>>
  /\ ctor' = [ctor EXCEPT ![i] = NoCtor]
  /\ UNCHANGED <<stream, proc, fs, fsize, claim, held, pend>>

swap_locks_copies(m, i, j) == [m EXCEPT ![i] = m[j]]

\* file_mutex.hpp:72: m_file_lock.swap(other.m_file_lock), on the table of
\* members (index 0 is the temporary of operator=).
swap_locks(m, i, j) == [m EXCEPT ![i] = m[j], ![j] = m[i]]

\* The file_lock member's destructor closes its handle: the entry of h in the
\* table of open files, and in the table of what the API reported, is reset.
CloseIn(tab, h, none) == IF h = InvalidHandle THEN tab ELSE [tab EXCEPT ![h] = none]

\* The locks after that close: the process loses every lock it has on the
\* file of h, also those taken through its other handles. The file stays.
CloseDrops(h) == IF h = InvalidHandle THEN claim ELSE ClosedBy(h_proc(h), h_file[h])

file_mutex_move_leaves_source(i, j) ==
  /\ life[i] = "unborn"
  /\ i # j
  /\ Idle(j)
  /\ ProcOf(i) = ProcOf(j)
  /\ life' = [life EXCEPT ![i] = "live"]
  /\ m_file_lock' = [m_file_lock EXCEPT ![i] = m_file_lock[j]]
  /\ ev' = EventOf("file_mutex(move)", i, "void", "", "", j)
  /\ UNCHANGED <<stream, ctor, proc, fs, fsize, h_file, claim, held, pend>>

\* file_mutex.hpp:60: *this starts empty, then swaps with "moved".
file_mutex_move(i, j) ==
  /\ life[i] = "unborn"
  /\ i # j
  /\ Idle(j)
  /\ ProcOf(i) = ProcOf(j)
  /\ life' = [life EXCEPT ![i] = "live"]
  /\ m_file_lock' = swap_locks([m_file_lock EXCEPT ![i] = InvalidHandle], i, j)
  /\ ev' = EventOf("file_mutex(move)", i, "void", "", "", j)
  /\ UNCHANGED <<stream, ctor, proc, fs, fsize, h_file, claim, held, pend>>

operator_assign_leaks(i, j) ==
  /\ Idle(i)
  /\ Idle(j)
  /\ ProcOf(i) = ProcOf(j)
  /\ m_file_lock' = IF i = j THEN m_file_lock
                    ELSE [m_file_lock EXCEPT ![i] = m_file_lock[j], ![j] = InvalidHandle]
  /\ ev' = EventOf("operator=", i, "void", "", "", j)
  /\ UNCHANGED <<stream, ctor, proc, fs, fsize, h_file, claim, held, life, pend>>

\* file_mutex.hpp:64-68: tmp(move(moved)); swap(tmp); tmp is destroyed.
operator_assign(i, j) ==
  /\ Idle(i)
  /\ Idle(j)
  /\ ProcOf(i) = ProcOf(j)
  /\ LET m0 == [k \in Insts \cup {0} |-> IF k = 0 THEN InvalidHandle ELSE m_file_lock[k]]
         m1 == swap_locks(m0, 0, j)
         m2 == swap_locks(m1, i, 0)
         old == m2[0]
     IN /\ m_file_lock' = [k \in Insts |-> m2[k]]
        /\ h_file' = CloseIn(h_file, old, NoFile)
        /\ claim' = CloseDrops(old)
        /\ held' = CloseIn(held, old, "none")
  /\ ev' = EventOf("operator=", i, "void", "", "", j)
  /\ UNCHANGED <<stream, ctor, proc, fs, fsize, life, pend>>

\* file_mutex.hpp:72
swap(i, j) ==
  /\ i # j
  /\ Idle(i)
  /\ Idle(j)
  /\ ProcOf(i) = ProcOf(j)
  /\ m_file_lock' = swap_locks(m_file_lock, i, j)
  /\ ev' = EventOf("swap", i, "void", "", "", j)
  /\ UNCHANGED <<stream, ctor, proc, fs, fsize, h_file, claim, held, life, pend>>

destroy_deletes_file(i) ==
  /\ Idle(i)
  /\ LET old == m_file_lock[i]
         gone == IF old = InvalidHandle THEN {} ELSE {h_file[old].path}
         open == CloseIn(h_file, old, NoFile)
     IN /\ h_file' = [h \in Handles |->
                        IF open[h].path \in gone /\ open[h].orphan = 0
                          THEN Orphan(open[h].path, h) ELSE open[h]]
        /\ claim' = CloseDrops(old)
        /\ held' = CloseIn(held, old, "none")
        /\ fs' = [q \in AllPaths |-> fs[q] /\ q \notin gone]
  /\ life' = [life EXCEPT ![i] = "destroyed"]
  /\ m_file_lock' = [m_file_lock EXCEPT ![i] = InvalidHandle]
  /\ ev' = Event("~file_mutex", i, "void", "")
  /\ UNCHANGED <<stream, ctor, proc, fsize, pend>>

destroy_leaves_lock(i) ==
  /\ Idle(i)
  /\ life' = [life EXCEPT ![i] = "destroyed"]
  /\ m_file_lock' = [m_file_lock EXCEPT ![i] = InvalidHandle]
  /\ ev' = Event("~file_mutex", i, "void", "")
  /\ UNCHANGED <<stream, ctor, proc, fs, fsize, h_file, claim, held, pend>>

\* The implicit destructor: the member m_file_lock (file_mutex.hpp:159) is
\* destroyed and closes its handle.
destroy(i) ==
  /\ Idle(i)
  /\ LET old == m_file_lock[i]
     IN /\ h_file' = CloseIn(h_file, old, NoFile)
        /\ claim' = CloseDrops(old)
        /\ held' = CloseIn(held, old, "none")
  /\ life' = [life EXCEPT ![i] = "destroyed"]
  /\ m_file_lock' = [m_file_lock EXCEPT ![i] = InvalidHandle]
  /\ ev' = Event("~file_mutex", i, "void", "")
  /\ UNCHANGED <<stream, ctor, proc, fs, fsize, pend>>

\* Handles open on the file at `path` keep it alive once it is unlinked, and
\* so do the streams of writers: what they write no longer shows at `path`.
Unlink(open, path) ==
  LET on == {h \in Handles : open[h] = Linked(path)}
      low == CHOOSE h \in on : \A g \in on : h <= g
  IN [h \in Handles |-> IF h \in on THEN Orphan(path, low) ELSE open[h]]

\* The file that was at `path`, once unlinked: the orphan the handles open on
\* it share, NoFile when none is (no lock can be held on it then).
UnlinkedFile(open, path) ==
  LET on == {h \in Handles : open[h] = Linked(path)}
  IN IF on = {} THEN NoFile
     ELSE Orphan(path, CHOOSE h \in on : \A g \in on : h <= g)

\* file_mutex.hpp:142-144: filesystem::remove(path) on the path as given.
remove(path) ==
  /\ fs' = [fs EXCEPT ![path] = FALSE]
  /\ fsize' = [fsize EXCEPT ![path] = 0]
  /\ h_file' = Unlink(h_file, path)
  /\ ctor' = [i \in Insts |->
                IF ctor[i].tmp = Linked(path)
                THEN [ctor[i] EXCEPT !.tmp = UnlinkedFile(h_file, path)]
                ELSE ctor[i]]
  /\ stream' = [w \in Writers |->
                  IF stream[w].path = path THEN [stream[w] EXCEPT !.linked = FALSE]
                  ELSE stream[w]]
  /\ ev' = Event("remove", 0, Ret(fs[path]), path)
  /\ UNCHANGED <<proc, claim, held, life, m_file_lock, pend>>

\* Reasons for which the operating system refuses the unlink: the caller may
\* not search or write the directory (EACCES, whether or not a file is at
\* the path), the file may not be unlinked (EPERM, an append-only file).
RemoveErrnos == {"EACCES", "EPERM"}

\* file_mutex.hpp:141-144 when filesystem::remove fails: its filesystem_error
\* leaves remove, and the directory is as it was.
remove_throws(path, errno) ==
  /\ errno = "EPERM" => fs[path]
  /\ ev' = [Event("remove", 0, "filesystem_error", path) EXCEPT !.errno = errno]
  /\ UNCHANGED <<stream, ctor, proc, fs, fsize, h_file, claim, held, life, m_file_lock, pend>>

\* ------------------------------------------------------- the lock primitive
\* Does a request for mode m conflict with a lock c that is already held?
Conflicts(m, c) == (m = "ex" /\ c # "none") \/ (m = "sh" /\ c = "ex")

\* A conflicting lock held on the same file by another process. Locks
\* arbitrate between processes only (file_mutex.hpp:36-38): a lock of the
\* requester's own process never stands against its request.
ForeignConflict(h, m) ==
  \E h2 \in Handles \ {h} :
    /\ h_file[h2] # NoFile /\ h_file[h2] = h_file[h]
    /\ h_proc(h2) # h_proc(h)
    /\ Conflicts(m, claim[h2])

\* file_lock::try_lock / try_lock_sharable: one attempt for mode m, reported to
\* the caller of `op` as ownership `api`.
file_lock_try(i, m, op, api) ==
  /\ Owning(i)
  /\ Idle(i)
  /\ LET h == m_file_lock[i]
         ok == ~ForeignConflict(h, m)
     IN /\ claim' = IF ok THEN Granted(h, m) ELSE claim
        /\ held' = IF ok THEN [held EXCEPT ![h] = api] ELSE held
        /\ ev' = Event(op, i, Ret(ok), "")
  /\ UNCHANGED <<stream, ctor, proc, fs, fsize, h_file, life, m_file_lock, pend>>

\* The same attempt, with contention thrown to the caller as an error.
file_lock_try_throws_contention(i, m, op, api) ==
  /\ Owning(i)
  /\ Idle(i)
  /\ LET h == m_file_lock[i]
         ok == ~ForeignConflict(h, m)
     IN /\ claim' = IF ok THEN Granted(h, m) ELSE claim
        /\ held' = IF ok THEN [held EXCEPT ![h] = api] ELSE held
        /\ ev' = IF ok THEN Event(op, i, "true", "")
                       ELSE Thrown(op, i, "EWOULDBLOCK")
  /\ UNCHANGED <<stream, ctor, proc, fs, fsize, h_file, life, m_file_lock, pend>>

\* A file_lock call that does not wait (try_lock, try_lock_sharable, unlock,
\* unlock_sharable) when the system call fails for a reason other than
\* contention: the error is thrown, no lock is acquired or released.
file_lock_call_throws(i, op, errno) ==
  /\ Owning(i)
  /\ Idle(i)
  /\ ev' = Thrown(op, i, errno)
  /\ UNCHANGED <<stream, ctor, proc, fs, fsize, h_file, claim, held, life, m_file_lock, pend>>

\* file_lock::unlock / unlock_sharable: the lock of the process on the file
\* is released.
file_lock_release(i, op) ==
  /\ Owning(i)
  /\ Idle(i)
  /\ claim' = Released(m_file_lock[i])
  /\ held' = [held EXCEPT ![m_file_lock[i]] = "none"]
  /\ ev' = Event(op, i, "void", "")
  /\ UNCHANGED <<stream, ctor, proc, fs, fsize, h_file, life, m_file_lock, pend>>

\* file_lock::lock / lock_sharable / timed_lock / timed_lock_sharable: the
\* caller enters the call and waits inside it.
file_lock_wait(i, m, op, api, timed, expired) ==
  /\ Owning(i)
  /\ Idle(i)
  /\ pend' = [pend EXCEPT ![i] = [op |-> op, mode |-> m, api |-> api,
                                  timed |-> timed, expired |-> expired]]
  /\ ev' = Event(op, i, "waiting", "")
  /\ UNCHANGED <<stream, ctor, proc, fs, fsize, h_file, claim, held, life, m_file_lock>>

\* A waiting call obtains the lock, no lock of another process standing
\* against it, and returns (true, for a timed call).
file_lock_acquire(i) ==
  /\ pend[i].op # "none"
  /\ pend[i].timed => ~pend[i].expired
  /\ LET h == m_file_lock[i]
     IN /\ ~ForeignConflict(h, pend[i].mode)
        /\ claim' = Granted(h, pend[i].mode)
        /\ held' = [held EXCEPT ![h] = pend[i].api]
  /\ ev' = Event(pend[i].op, i, IF pend[i].timed THEN "true" ELSE "void", "")
  /\ pend' = [pend EXCEPT ![i] = NoPend]
  /\ UNCHANGED <<stream, ctor, proc, fs, fsize, h_file, life, m_file_lock>>

\* The clock reaches the abs_time of a waiting timed call.
deadline_passes(i) ==
  /\ pend[i].op # "none"
  /\ pend[i].timed
  /\ ~pend[i].expired
  /\ pend' = [pend EXCEPT ![i].expired = TRUE]
  /\ ev' = Event("abs_time", i, "void", "")
  /\ UNCHANGED <<stream, ctor, proc, fs, fsize, h_file, claim, held, life, m_file_lock>>

\* A waiting timed call finds abs_time reached and returns false.
file_lock_timeout(i) ==
  /\ pend[i].op # "none"
  /\ pend[i].timed
  /\ pend[i].expired
  /\ ev' = Event(pend[i].op, i, "false", "")
  /\ pend' = [pend EXCEPT ![i] = NoPend]
  /\ UNCHANGED <<stream, ctor, proc, fs, fsize, h_file, claim, held, life, m_file_lock>>

\* The processes that hold, on the file of handle h, a lock that stands
\* against mode m asked through h.
Blockers(h, m) ==
  {h_proc(h2) : h2 \in {x \in Handles \ {h} :
                           /\ h_file[x] # NoFile /\ h_file[x] = h_file[h]
                           /\ h_proc(x) # h_proc(h)
                           /\ Conflicts(m, claim[x])}}

\* The processes that process p waits for: those standing against a call of
\* one of its objects that waits in the kernel. A timed call does not wait
\* there, it tries again and again.
WaitsFor(p) ==
  UNION {Blockers(m_file_lock[k], pend[k].mode) :
           k \in {j \in Insts : ProcOf(j) = p /\ pend[j].op # "none" /\ ~pend[j].timed}}

\* The processes reached from those of S along n links of waiting.
RECURSIVE WaitChain(_, _)
WaitChain(S, n) ==
  IF n = 0 THEN S ELSE WaitChain(S \cup UNION {WaitsFor(q) : q \in S}, n - 1)

\* The wait of object i closes a cycle: a process that stands against its
\* call waits, directly or through others, for the process of i.
Deadlock(i) ==
  /\ pend[i].op # "none" /\ ~pend[i].timed
  /\ ProcOf(i) \in WaitChain(UNION {WaitsFor(q) : q \in Blockers(m_file_lock[i], pend[i].mode)},
                              NumInsts)

\* file_lock::lock / lock_sharable when the wait would close a cycle of
\* waiting processes: the operating system refuses it (EDEADLK), the error is
\* thrown through the file_mutex call (file_mutex.hpp:79, 111 catch nothing),
\* nothing is acquired and nothing released. Which call of the cycle is
\* refused depends on the order in which the requests reach the operating
\* system, which the order of entering the calls does not fix.
file_lock_deadlock(i) ==
  /\ Deadlock(i)
  /\ ev' = Thrown(pend[i].op, i, "EDEADLK")
  /\ pend' = [pend EXCEPT ![i] = NoPend]
  /\ UNCHANGED <<stream, ctor, proc, fs, fsize, h_file, claim, held, life, m_file_lock>>

\* A waiting call whose system call fails for a reason other than contention
\* leaves with the error thrown and nothing acquired.
file_lock_wait_throws(i, errno) ==
  /\ pend[i].op # "none"
  /\ ev' = Thrown(pend[i].op, i, errno)
  /\ pend' = [pend EXCEPT ![i] = NoPend]
  /\ UNCHANGED <<stream, ctor, proc, fs, fsize, h_file, claim, held, life, m_file_lock>>

\* ------------------------------------------------- file_mutex locking calls
lock_forwards_timed_lock(i) == file_lock_wait(i, "ex", "lock", "ex", TRUE, TRUE)

lock_forwards_sharable(i) == file_lock_wait(i, "sh", "lock", "ex", FALSE, FALSE)

\* file_mutex.hpp:79
lock(i) == file_lock_wait(i, "ex", "lock", "ex", FALSE, FALSE)

try_lock_beside_sharable(i) ==
  /\ Owning(i)
  /\ Idle(i)
  /\ LET h == m_file_lock[i]
         ok == ~ForeignConflict(h, "ex")
     IN /\ claim' = IF ok /\ claim[h] # "sh" THEN Granted(h, "ex") ELSE claim
        /\ held' = IF ok THEN [held EXCEPT ![h] = "ex"] ELSE held
        /\ ev' = Event("try_lock", i, Ret(ok), "")
  /\ UNCHANGED <<stream, ctor, proc, fs, fsize, h_file, life, m_file_lock, pend>>

try_lock_waits(i) == file_lock_wait(i, "ex", "try_lock", "ex", FALSE, FALSE)

try_lock_throws_contention(i) ==
  file_lock_try_throws_contention(i, "ex", "try_lock", "ex")

try_lock_forwards_sharable(i) == file_lock_try(i, "sh", "try_lock", "ex")

\* file_mutex.hpp:88
try_lock(i) == file_lock_try(i, "ex", "try_lock", "ex")

timed_lock_forwards_sharable(i, abs_time) ==
  file_lock_wait(i, "sh", "timed_lock", "ex", TRUE, abs_time = "past")

\* file_mutex.hpp:97-99; abs_time is "past" or "future" at the time of the call
timed_lock(i, abs_time) ==
  file_lock_wait(i, "ex", "timed_lock", "ex", TRUE, abs_time = "past")

unlock_forwards_nothing(i) ==
  /\ Owning(i)
  /\ Idle(i)
  /\ held[m_file_lock[i]] = "ex"
  /\ held' = [held EXCEPT ![m_file_lock[i]] = "none"]
  /\ ev' = Event("unlock", i, "void", "")
  /\ UNCHANGED <<stream, ctor, proc, fs, fsize, h_file, claim, life, m_file_lock, pend>>

\* file_mutex.hpp:104; precondition (line 101): the caller has exclusive ownership
unlock(i) ==
  /\ Owning(i)
  /\ held[m_file_lock[i]] = "ex"
  /\ file_lock_release(i, "unlock")

\* file_mutex.hpp:104 when file_lock::unlock throws: nothing catches it.
unlock_throws(i, errno) ==
  /\ Owning(i)
  /\ held[m_file_lock[i]] = "ex"
  /\ file_lock_call_throws(i, "unlock", errno)

\* file_mutex.hpp:111
lock_sharable(i) == file_lock_wait(i, "sh", "lock_sharable", "sh", FALSE, FALSE)

try_lock_sharable_yields_to_waiters(i) ==
  /\ Owning(i)
  /\ Idle(i)
  /\ LET h == m_file_lock[i]
         waiting == \E j \in Insts \ {i} :
                      pend[j].op = "lock" /\ h_file[m_file_lock[j]] = h_file[h]
         ok == ~ForeignConflict(h, "sh") /\ ~waiting
     IN /\ claim' = IF ok THEN Granted(h, "sh") ELSE claim
        /\ held' = IF ok THEN [held EXCEPT ![h] = "sh"] ELSE held
        /\ ev' = Event("try_lock_sharable", i, Ret(ok), "")
  /\ UNCHANGED <<stream, ctor, proc, fs, fsize, h_file, life, m_file_lock, pend>>

try_lock_sharable_forwards_exclusive(i) ==
  file_lock_try(i, "ex", "try_lock_sharable", "sh")

\* file_mutex.hpp:121
try_lock_sharable(i) == file_lock_try(i, "sh", "try_lock_sharable", "sh")

\* file_mutex.hpp:130-132
timed_lock_sharable(i, abs_time) ==
  file_lock_wait(i, "sh", "timed_lock_sharable", "sh", TRUE, abs_time = "past")

\* file_mutex.hpp:137; precondition (line 134): the caller has sharable ownership
unlock_sharable(i) ==
  /\ Owning(i)
  /\ held[m_file_lock[i]] = "sh"
  /\ file_lock_release(i, "unlock_sharable")

\* file_mutex.hpp:137 when file_lock::unlock_sharable throws
unlock_sharable_throws(i, errno) ==
  /\ Owning(i)
  /\ held[m_file_lock[i]] = "sh"
  /\ file_lock_call_throws(i, "unlock_sharable", errno)

\* ---------------------------------------------------------- specifications
\* Objects being constructed, moved, assigned, swapped and destroyed, with the
\* locking calls that do not wait.
Next ==
  \/ \E i \in Insts : file_mutex_default(i)
  \/ \E i \in Insts, p \in Targets, s \in Suffixes : file_mutex_path(i, p, s, "none")
  \/ \E i \in Insts : ofstream_app_close(i)
  \/ \E i \in Insts : file_lock_open(i, "none")
  \/ \E i, j \in Insts : file_mutex_move(i, j)
  \/ \E i, j \in Insts : operator_assign(i, j)
  \/ \E i, j \in Insts : swap(i, j)
  \/ \E i \in Insts : destroy(i)
  \/ \E i \in Insts : try_lock(i)
  \/ \E i \in Insts : unlock(i)
  \/ \E i \in Insts : try_lock_sharable(i)
  \/ \E i \in Insts : unlock_sharable(i)

Spec == Init /\ [][Next]_vars

\* The files on disk: the writers of the target file, each opening it, writing
\* and leaving as example/main.cpp does, construction over the target with
\* either suffix, and removal.
NextFile ==
  \/ \E w \in Writers, p \in Targets : ofstream_open(w, p)
  \/ \E w \in Writers : AppendFile(w)
  \/ \E w \in Writers : ofstream_close(w)
  \/ \E i \in Insts, p \in Targets, s \in Suffixes : file_mutex_path(i, p, s, "none")
  \/ \E i \in Insts : ofstream_app_close(i)
  \/ \E i \in Insts : file_lock_open(i, "none")
  \/ \E p \in AllPaths : remove(p)
  \/ \E p \in AllPaths, e \in RemoveErrnos : remove_throws(p, e)

SpecFile == Init /\ [][NextFile]_vars

\* Construction with the default suffix that the operating system may
\* refuse, with removal, destruction and try_lock() on what was constructed.
NextBuild ==
  \/ \E i \in Insts, p \in Targets : file_mutex_path(i, p, DefaultSuffix, "none")
  \/ \E i \in Insts, p \in Targets, e \in OfstreamErrnos :
       file_mutex_path(i, p, DefaultSuffix, e)
  \/ \E i \in Insts : ofstream_app_close(i)
  \/ \E i \in Insts : file_lock_open(i, "none")
  \/ \E i \in Insts, e \in OpenErrnos : file_lock_open(i, e)
  \/ \E p \in AllPaths : remove(p)
  \/ \E p \in AllPaths, e \in RemoveErrnos : remove_throws(p, e)
  \/ \E i \in Insts : destroy(i)
  \/ \E i \in Insts : try_lock(i)

SpecBuild == Init /\ [][NextBuild]_vars

\* The objects that exist or are being constructed.
Alive == {i \in Insts : life[i] \in {"creating", "constructing", "live"}}

\* Objects over a lock file that comes and goes: construction with the
\* default suffix, removal, every locking call, waiting ones included, move
\* construction and assignment, swap and destruction. At most MaxLive of the
\* objects exist at a time; a destroyed one makes room for the next.
NextDisk ==
  \/ \E i \in Insts, p \in Targets :
       Cardinality(Alive) < MaxLive /\ file_mutex_path(i, p, DefaultSuffix, "none")
  \/ \E i \in Insts : ofstream_app_close(i)
  \/ \E i \in Insts : file_lock_open(i, "none")
  \/ \E p \in AllPaths : remove(p)
  \/ \E p \in AllPaths, e \in RemoveErrnos : remove_throws(p, e)
  \/ \E i, j \in Insts : Cardinality(Alive) < MaxLive /\ file_mutex_move(i, j)
  \/ \E i, j \in Insts : operator_assign(i, j)
  \/ \E i, j \in Insts : swap(i, j)
  \/ \E i \in Insts : destroy(i)
  \/ \E i \in Insts : lock(i)
  \/ \E i \in Insts : try_lock(i)
  \/ \E i \in Insts, t \in AbsTimes : timed_lock(i, t)
  \/ \E i \in Insts : unlock(i)
  \/ \E i \in Insts : lock_sharable(i)
  \/ \E i \in Insts : try_lock_sharable(i)
  \/ \E i \in Insts, t \in AbsTimes : timed_lock_sharable(i, t)
  \/ \E i \in Insts : unlock_sharable(i)
  \/ \E i \in Insts : file_lock_acquire(i)
  \/ \E i \in Insts : deadline_passes(i)
  \/ \E i \in Insts : file_lock_timeout(i)
  \/ \E i \in Insts : file_lock_deadlock(i)

SpecDisk == Init /\ [][NextDisk]_vars

\* Every object already constructed over ("t", ".lock"): the locking calls,
\* waiting ones included, in any interleaving; a wait that would close a
\* cycle of waiting processes is refused.
LockFile == Linked(build_file_lock_path("t", DefaultSuffix))

InitLockOn(procs) ==
  /\ fs = [p \in AllPaths |-> p = build_file_lock_path("t", DefaultSuffix)]
  /\ fsize = [p \in AllPaths |-> 0]
  /\ h_file = [h \in Handles |-> LockFile]
  /\ claim = [h \in Handles |-> "none"]
  /\ held = [h \in Handles |-> "none"]
  /\ life = [i \in Insts |-> "live"]
  /\ m_file_lock = [i \in Insts |-> i]
  /\ pend = [i \in Insts |-> NoPend]
  /\ ctor = [i \in Insts |-> NoCtor]
  /\ proc = procs
  /\ stream = [w \in Writers |-> NoStream]
  /\ ev = Event("init", 0, "void", "")

InitLock == InitLockOn(SharedProcs)

NextLock ==
  \/ \E i \in Insts : lock(i)
  \/ \E i \in Insts : try_lock(i)
  \/ \E i \in Insts, t \in AbsTimes : timed_lock(i, t)
  \/ \E i \in Insts : unlock(i)
  \/ \E i \in Insts : lock_sharable(i)
  \/ \E i \in Insts : try_lock_sharable(i)
  \/ \E i \in Insts, t \in AbsTimes : timed_lock_sharable(i, t)
  \/ \E i \in Insts : unlock_sharable(i)
  \/ \E i \in Insts : file_lock_acquire(i)
  \/ \E i \in Insts : deadline_passes(i)
  \/ \E i \in Insts : file_lock_timeout(i)
  \/ \E i \in Insts : file_lock_deadlock(i)

SpecLock == InitLock /\ [][NextLock]_vars

\* The same objects, dealt over the processes or each in a process of its
\* own, with the calls that wait without a deadline, the releases and the
\* sharable attempt; a waiting call against which no lock of another process
\* stands any more is eventually granted.
InitFair == \E procs \in {SharedProcs, OwnProcs} : InitLockOn(procs)

NextFair ==
  \/ \E i \in Insts : lock(i)
  \/ \E i \in Insts : unlock(i)
  \/ \E i \in Insts : lock_sharable(i)
  \/ \E i \in Insts : try_lock_sharable(i)
  \/ \E i \in Insts : unlock_sharable(i)
  \/ \E i \in Insts : file_lock_acquire(i)
  \/ \E i \in Insts : file_lock_deadlock(i)

SpecFair ==
  /\ InitFair
  /\ [][NextFair]_vars
  /\ \A i \in Insts : WF_vars(file_lock_acquire(i))

\* The same objects, each in a process of its own, and the calls of SpecLock
\* with an operating system that may also fail a locking call: the exception
\* leaves through the file_mutex call that forwarded it (file_mutex.hpp:79-137
\* catch nothing).
NextOS ==
  \/ NextLock
  \/ \E i \in Insts, e \in Errnos : file_lock_call_throws(i, "try_lock", e)
  \/ \E i \in Insts, e \in Errnos : file_lock_call_throws(i, "try_lock_sharable", e)
  \/ \E i \in Insts, e \in Errnos : unlock_throws(i, e)
  \/ \E i \in Insts, e \in Errnos : unlock_sharable_throws(i, e)
  \/ \E i \in Insts, e \in Errnos : file_lock_wait_throws(i, e)

SpecOS == InitLockOn(OwnProcs) /\ [][NextOS]_vars

\* ================================================================== claims
Holds(i, m) == Owning(i) /\ held[m_file_lock[i]] = m
\* i holds ownership m and the lock of its process on the file stands for it.
Has(i, m) == Holds(i, m) /\ claim[m_file_lock[i]] = m
SameLockFile(i, j) ==
  Owning(i) /\ Owning(j) /\ h_file[m_file_lock[i]] # NoFile
  /\ h_file[m_file_lock[i]] = h_file[m_file_lock[j]]

\* Ownership another object has on the lock file of handle h: as the API
\* reported it and the lock of its process still stands for it, by an object
\* of another process / as the API reported it, by any other object.
ForeignHolder(h, modes) ==
  \E h2 \in Handles \ {h} :
    /\ h_file[h2] = h_file[h] /\ h_proc(h2) # h_proc(h)
    /\ held[h2] \in modes /\ claim[h2] = held[h2]
AnyOtherHolder(h, modes) ==
  \E h2 \in Handles \ {h} : h_file[h2] = h_file[h] /\ held[h2] \in modes
\* A lock of one of `modes` that another process has on the lock file of h.
ForeignLock(h, modes) ==
  \E h2 \in Handles \ {h} :
    /\ h_file[h2] = h_file[h] /\ h_proc(h2) # h_proc(h)
    /\ claim[h2] \in modes
\* A step through handle h leaves what the API reported to every other object,
\* and every lock but those of the process of h on the file of h.
OthersUntouched(h) ==
  \A h2 \in Handles \ {h} :
    /\ held'[h2] = held[h2]
    /\ h2 \notin Siblings(h) => claim'[h2] = claim[h2]
\* h is the only handle its process has open on its file.
SoleHandle(h) == Siblings(h) = {h}

Excludes(i, j) ==
  /\ ~(Holds(i, "ex") /\ Holds(j, "ex"))
  /\ ~(Holds(i, "sh") /\ Holds(j, "ex"))

\* C1 as stated: of any two objects on the same lock file, whether they live
\* in different processes or in different threads of one process, at most one
\* holds exclusive ownership, and none holds exclusive ownership while
\* another holds sharable ownership.
C1_ExclusionAmongAllInstances ==
  \A i, j \in Insts : (i # j /\ SameLockFile(i, j)) => Excludes(i, j)

\* C1 amended: of two objects on the same lock file that live in different
\* processes, at most one has exclusive ownership that the lock of its
\* process stands for, and none has it while the other has such sharable
\* ownership; and an object whose handle is the only one its process has open
\* on the lock file has exactly the lock the API reported to it.
C1_ExclusionAcrossProcesses ==
  /\ \A i, j \in Insts :
       (ProcOf(i) # ProcOf(j) /\ SameLockFile(i, j)) =>
          /\ ~(Has(i, "ex") /\ Has(j, "ex"))
          /\ ~(Has(i, "sh") /\ Has(j, "ex"))
  /\ \A i \in Insts :
       (Owning(i) /\ SoleHandle(m_file_lock[i])) =>
          claim[m_file_lock[i]] = held[m_file_lock[i]]

C1_Witness ==
  \E i, j, k \in Insts :
    /\ ProcOf(i) # ProcOf(j) /\ SameLockFile(i, j)
    /\ Has(i, "ex") /\ SoleHandle(m_file_lock[i]) /\ pend[j].op = "lock"
    /\ ProcOf(k) # ProcOf(i) /\ ev = Event("try_lock_sharable", k, "false", "")

\* C2 as stated: try_lock() returns true, leaving the caller with exclusive
\* ownership, exactly when no other object has exclusive or sharable
\* ownership of the lock file; when another has, it returns false, the
\* caller gains nothing and the ownership of the others is unchanged.
C2_TryLockExact ==
  [][ev'.op = "try_lock" =>
       LET h == m_file_lock[ev'.inst]
       IN /\ ev'.ret = Ret(~AnyOtherHolder(h, {"sh", "ex"}))
          /\ ev'.ret = "true" => held'[h] = "ex"
          /\ ev'.ret = "false" => held' = held
          /\ \A h2 \in Handles \ {h} : held'[h2] = held[h2]]_vars

\* C2 amended: try_lock() returns true, leaving the caller with exclusive
\* ownership and its process with the exclusive lock, exactly when no other
\* process has a lock on the lock file; otherwise it returns false and
\* changes neither ownership nor lock. So it returns false when an object of
\* another process has ownership that the lock of its process stands for,
\* and true when no other object has any ownership; it never changes what
\* another object was told it holds, nor a lock of another process.
C2_TryLock ==
  [][ev'.op = "try_lock" =>
       LET h == m_file_lock[ev'.inst]
       IN /\ ev'.ret = Ret(~ForeignLock(h, {"sh", "ex"}))
          /\ ForeignHolder(h, {"sh", "ex"}) =>
               ev'.ret = "false" /\ held' = held /\ claim' = claim
          /\ ~AnyOtherHolder(h, {"sh", "ex"}) =>
               ev'.ret = "true" /\ held'[h] = "ex" /\ claim'[h] = "ex"
          /\ ev'.ret = "false" => held' = held /\ claim' = claim
          /\ ev'.ret = "true" => held'[h] = "ex" /\ claim'[h] = "ex"
          /\ OthersUntouched(h)]_vars

C2_Witness ==
  /\ ev.op = "try_lock" /\ ev.ret = "true"
  /\ Has(ev.inst, "ex")
  /\ \E j \in Insts \ {ev.inst} :
       ProcOf(j) = ProcOf(ev.inst) /\ SameLockFile(j, ev.inst) /\ Holds(j, "ex")
  /\ \E k \in Insts : ProcOf(k) # ProcOf(ev.inst) /\ SameLockFile(k, ev.inst)
                      /\ Holds(k, "none") /\ pend[k].op = "lock_sharable"

\* C3 as stated: try_lock_sharable() returns true and adds a sharable holder
\* whenever no other object has exclusive ownership, however many have
\* sharable ownership, and returns false without changing any ownership when
\* another object has exclusive ownership.
C3_TryLockSharableExact ==
  [][ev'.op = "try_lock_sharable" =>
       LET h == m_file_lock[ev'.inst]
       IN /\ ev'.ret = Ret(~AnyOtherHolder(h, {"ex"}))
          /\ ev'.ret = "true" => held'[h] = "sh"
          /\ ev'.ret = "false" => held' = held]_vars

\* C3 amended: try_lock_sharable() returns true, leaving the caller with
\* sharable ownership and its process with the sharable lock, exactly when
\* no other process has the exclusive lock on the lock file, however many
\* have sharable ones; otherwise it returns false and changes neither
\* ownership nor lock. So it returns false when an object of another process
\* has exclusive ownership that the lock of its process stands for, and true
\* when no other object has exclusive ownership; it never changes what
\* another object was told it holds, nor a lock of another process.
C3_TryLockSharable ==
  [][ev'.op = "try_lock_sharable" =>
       LET h == m_file_lock[ev'.inst]
       IN /\ ev'.ret = Ret(~ForeignLock(h, {"ex"}))
          /\ ForeignHolder(h, {"ex"}) =>
               ev'.ret = "false" /\ held' = held /\ claim' = claim
          /\ ~AnyOtherHolder(h, {"ex"}) =>
               ev'.ret = "true" /\ held'[h] = "sh" /\ claim'[h] = "sh"
          /\ ev'.ret = "false" => held' = held /\ claim' = claim
          /\ ev'.ret = "true" => held'[h] = "sh" /\ claim'[h] = "sh"
          /\ OthersUntouched(h)]_vars

C3_Witness ==
  /\ ev.op = "try_lock_sharable" /\ ev.ret = "true"
  /\ Has(ev.inst, "sh")
  /\ \E j \in Insts : ProcOf(j) # ProcOf(ev.inst) /\ SameLockFile(j, ev.inst)
                      /\ Has(j, "sh")
  /\ \E k \in Insts \ {ev.inst} :
       ProcOf(k) = ProcOf(ev.inst) /\ SameLockFile(k, ev.inst) /\ Holds(k, "ex")

\* C4: timed_lock(abs_time) returns true only by acquiring, before abs_time
\* and with no holder left in another process, and then the caller holds
\* exclusive ownership; it returns false only once abs_time is reached, and
\* then no ownership was acquired: a caller that held none holds none.
C4_TimedLock ==
  [][(ev'.op = "timed_lock" /\ ev'.ret \in {"true", "false"}) =>
       LET i == ev'.inst
           h == m_file_lock[i]
       IN /\ pend[i].op = "timed_lock"
          /\ ev'.ret = "true" =>
               /\ held'[h] = "ex" /\ claim'[h] = "ex"
               /\ ~pend[i].expired
               /\ ~ForeignHolder(h, {"sh", "ex"})
          /\ ev'.ret = "false" =>
               /\ pend[i].expired
               /\ held' = held /\ claim' = claim
          /\ held[h] = "none" => (ev'.ret = "true" <=> held'[h] = "ex")
          /\ OthersUntouched(h)]_vars

C4_Witness ==
  /\ ev.op = "timed_lock" /\ ev.ret = "false"
  /\ Holds(ev.inst, "none")
  /\ \E j \in Insts : ProcOf(j) # ProcOf(ev.inst) /\ SameLockFile(j, ev.inst)
                      /\ Has(j, "ex")

\* C5: unlock() leaves no lock behind on the caller's handle, and a
\* try_lock() that another object makes right after it, with no other holder
\* on the lock file, returns true.
C5_UnlockReleases ==
  [][/\ ev'.op = "unlock" =>
          LET h == m_file_lock[ev'.inst]
          IN held'[h] = "none" /\ claim'[h] = "none" /\ OthersUntouched(h)
     /\ (ev.op = "unlock" /\ ev'.op = "try_lock" /\ ev'.inst # ev.inst
           /\ SameLockFile(ev.inst, ev'.inst)
           /\ ~AnyOtherHolder(m_file_lock[ev'.inst], {"sh", "ex"})) =>
          ev'.ret = "true" /\ held'[m_file_lock[ev'.inst]] = "ex"]_vars

C5_Witness ==
  /\ ev.op = "unlock"
  /\ \A h \in Handles : held[h] = "none" /\ claim[h] = "none"
  /\ \E j \in Insts : ProcOf(j) # ProcOf(ev.inst) /\ SameLockFile(j, ev.inst)
                      /\ Idle(j)

\* C6: remove(p), called with the path a file_mutex was constructed over and
\* not failed by the filesystem, deletes the lock file p + ".lock" and leaves
\* the file p itself in place.
C6_RemoveDeletesLockFile ==
  [][(ev'.op = "remove" /\ ev'.ret \in {"true", "false"} /\ ev'.path \in Targets
        /\ \E i \in Insts : Owning(i)
              /\ h_file[m_file_lock[i]] = Linked(ev'.path \o DefaultSuffix)) =>
       /\ ~fs'[ev'.path \o DefaultSuffix]
       /\ fs'[ev'.path] = fs[ev'.path]]_vars

\* C7: remove(p), when the filesystem does not fail it, returns true and
\* deletes the lock file of p when that file exists, returns false when it
\* does not, and so returns true then false when called twice in a row.
C7_RemoveResult ==
  [][(ev'.op = "remove" /\ ev'.ret \in {"true", "false"} /\ ev'.path \in Targets) =>
       LET lock_path == ev'.path \o DefaultSuffix
       IN /\ ev'.ret = Ret(fs[lock_path])
          /\ ~fs'[lock_path]
          /\ (ev.op = "remove" /\ ev.path = ev'.path /\ ev.ret = "true") =>
               ev'.ret = "false"]_vars

\* C8: constructing file_mutex(p, s) first leaves a file at exactly p + s (at
\* p + ".lock" for the default suffix), creating it only when none is there
\* and touching no other path, no content and no open handle; the
\* construction that then succeeds finds that file in place, binds the
\* object's handle to it, and changes neither the directory, nor a file's
\* content, nor another handle.
C8_ConstructCreatesLockFile ==
  [][/\ ev'.op = "ofstream" =>
          LET lock_path == ev'.path \o ev'.suffix
          IN /\ (ev'.path = "t" /\ ev'.suffix = DefaultSuffix) => lock_path = "t.lock"
             /\ fs'[lock_path]
             /\ \A q \in AllPaths \ {lock_path} : fs'[q] = fs[q]
             /\ fsize' = fsize /\ h_file' = h_file
             /\ ctor'[ev'.inst].path = ev'.path /\ ctor'[ev'.inst].suffix = ev'.suffix
     /\ (ev'.op = "file_mutex(path)" /\ ev'.ret = "void") =>
          LET i == ev'.inst
              lock_path == ev'.path \o ev'.suffix
          IN /\ ctor[i].path = ev'.path /\ ctor[i].suffix = ev'.suffix
             /\ fs[lock_path] /\ fs' = fs /\ fsize' = fsize
             /\ life'[i] = "live" /\ m_file_lock'[i] # InvalidHandle
             /\ h_file'[m_file_lock'[i]] = Linked(lock_path)
             /\ \A h \in Handles \ {m_file_lock'[i]} : h_file'[h] = h_file[h]]_vars

C8_Witness ==
  /\ ev.op = "file_mutex(path)" /\ ev.ret = "void" /\ ev.suffix = ""
  /\ fsize[ev.path \o ev.suffix] = MaxSize
  /\ \E i \in Insts : Owning(i) /\ h_file[m_file_lock[i]] = Linked(ev.path \o DefaultSuffix)
  /\ \E j \in Insts \ {ev.inst} :
       Owning(j) /\ h_file[m_file_lock[j]] = h_file[m_file_lock[ev.inst]]

\* C9: move construction of b from an owning a leaves a empty and b owning
\* a's handle with the lock held through it; b.unlock() then releases that
\* lock, and a try_lock() by an object of another process right after it,
\* with no other holder, returns true.
C9_MoveConstruct ==
  [][/\ (ev'.op = "file_mutex(move)" /\ Owning(ev'.other)) =>
          LET a == ev'.other
              b == ev'.inst
          IN /\ life'[a] = "live" /\ m_file_lock'[a] = InvalidHandle
             /\ life'[b] = "live" /\ m_file_lock'[b] = m_file_lock[a]
             /\ h_file' = h_file /\ held' = held /\ claim' = claim
     /\ (ev'.op = "unlock" /\ m_file_lock[ev'.inst] # ev'.inst) =>
          claim'[m_file_lock[ev'.inst]] = "none"
     /\ (ev.op = "unlock" /\ ev'.op = "try_lock"
           /\ ProcOf(ev'.inst) # ProcOf(ev.inst)
           /\ SameLockFile(ev.inst, ev'.inst)
           /\ ~AnyOtherHolder(m_file_lock[ev'.inst], {"sh", "ex"})) =>
          ev'.ret = "true"]_vars

C9_Witness ==
  /\ ev.op = "file_mutex(move)"
  /\ life[ev.other] = "live" /\ ~Owning(ev.other)
  /\ Holds(ev.inst, "ex") /\ claim[m_file_lock[ev.inst]] = "ex"
  /\ \E c \in Insts : ProcOf(c) # ProcOf(ev.inst) /\ SameLockFile(c, ev.inst)

\* C10: every open lock-file handle is owned by at most one live object, and
\* an object that was just default-constructed owns none.
C10_HandleOwnedOnce ==
  /\ \A i, j \in Insts :
       (i # j /\ Owning(i) /\ Owning(j)) => m_file_lock[i] # m_file_lock[j]
  /\ \A h \in Handles :
       h_file[h] # NoFile => Cardinality({i \in Insts : Owning(i) /\ m_file_lock[i] = h}) <= 1
  /\ ev.op = "file_mutex()" => ~Owning(ev.inst)

C10_Witness ==
  /\ ev.op = "operator="
  /\ ev.other # ev.inst
  /\ Owning(ev.inst) /\ m_file_lock[ev.inst] # ev.inst
  /\ life[ev.other] = "live" /\ ~Owning(ev.other)
  /\ \E k \in Insts : life[k] = "destroyed"

\* The ownership of other objects that stands in the way of each locking call.
ExclusiveCalls == {"lock", "try_lock", "timed_lock"}
SharableCalls == {"lock_sharable", "try_lock_sharable", "timed_lock_sharable"}
ReleaseCalls == {"unlock", "unlock_sharable"}
BlockingCalls == {"lock", "lock_sharable"}
TryCalls == {"try_lock", "try_lock_sharable"}
TimedCalls == {"timed_lock", "timed_lock_sharable"}
Contended(i, op) ==
  ForeignHolder(m_file_lock[i], IF op \in ExclusiveCalls THEN {"sh", "ex"} ELSE {"ex"})

\* C11 as stated: no locking call ends with an error because of the locks
\* others hold. While an object of another process holds conflicting
\* ownership, a call of lock() or lock_sharable() stays inside the call,
\* try_lock() and try_lock_sharable() return false, a timed call returns
\* false and only once abs_time is reached; and an exception leaves a call
\* only when the operating system failed it for a reason that has nothing to
\* do with who holds the lock.
C11_ContentionNeverRaises ==
  [][/\ (ev'.op \in ExclusiveCalls \cup SharableCalls \cup ReleaseCalls) =>
          LET i == ev'.inst
          IN /\ ev'.ret = "interprocess_exception" <=> ev'.errno \in Errnos
             /\ (ev'.op \notin ReleaseCalls /\ Contended(i, ev'.op) /\ ev'.errno = "none") =>
                  /\ ev'.op \in TryCalls => ev'.ret = "false"
                  /\ ev'.op \in BlockingCalls =>
                       ev'.ret = "waiting" /\ pend'[i].op = ev'.op
                  /\ ev'.op \in TimedCalls =>
                       \/ ev'.ret = "waiting" /\ pend'[i].op = ev'.op
                       \/ ev'.ret = "false" /\ pend[i].expired
     /\ \A j \in Insts :
          (pend[j].op \in BlockingCalls /\ Contended(j, pend[j].op)) =>
             \/ pend'[j] = pend[j]
             \/ ev' = Thrown(pend[j].op, j, ev'.errno) /\ ev'.errno \in Errnos]_vars

\* C11 amended: the locks others hold make no locking call fail, a deadlock
\* apart. While an object of
\* another process holds conflicting ownership, a call of lock() or
\* lock_sharable() stays inside the call unless the operating system fails
\* it, try_lock() and try_lock_sharable() return false, and a timed call
\* returns false and only once abs_time is reached; an exception leaves a
\* locking or releasing call only when the operating system failed it, and
\* then no ownership has changed; the one failure that has to do with the
\* locks of others, the refused deadlock, befalls only a call of lock() or
\* lock_sharable() whose wait closes a cycle of waiting processes (the
\* caller's process holds a lock that a process standing against the call
\* waits for), never a call that merely finds the lock held.
C11_ContentionIsNoError ==
  [][/\ (ev'.op \in ExclusiveCalls \cup SharableCalls \cup ReleaseCalls) =>
          LET i == ev'.inst
          IN /\ ev'.ret = "interprocess_exception" <=> ev'.errno \in Errnos \cup {"EDEADLK"}
             /\ ev'.ret = "interprocess_exception" => held' = held /\ claim' = claim
             /\ ev'.errno = "EDEADLK" =>
                  /\ ev'.op \in BlockingCalls /\ pend[i].op = ev'.op
                  /\ Deadlock(i)
                  /\ \E k \in Insts \ {i} :
                       /\ ProcOf(k) # ProcOf(i) /\ pend[k].op \in BlockingCalls
                       /\ claim[m_file_lock[k]] # "none"
             /\ (ev'.op \notin ReleaseCalls /\ Contended(i, ev'.op) /\ ev'.errno = "none") =>
                  /\ ev'.op \in TryCalls => ev'.ret = "false"
                  /\ ev'.op \in BlockingCalls =>
                       ev'.ret = "waiting" /\ pend'[i].op = ev'.op
                  /\ ev'.op \in TimedCalls =>
                       \/ ev'.ret = "waiting" /\ pend'[i].op = ev'.op
                       \/ ev'.ret = "false" /\ pend[i].expired
     /\ \A j \in Insts :
          (pend[j].op \in BlockingCalls /\ Contended(j, pend[j].op)) =>
             \/ pend'[j] = pend[j]
             \/ ev' = Thrown(pend[j].op, j, ev'.errno) /\ ev'.errno \in Errnos
             \/ ev' = Thrown(pend[j].op, j, "EDEADLK") /\ Deadlock(j)]_vars

C11_Witness ==
  \E i, j, k \in Insts :
    /\ ev = Thrown("lock", i, "EDEADLK") /\ Idle(i)
    /\ Has(i, "sh") /\ Has(j, "sh") /\ SameLockFile(i, j) /\ ProcOf(i) # ProcOf(j)
    /\ pend[j].op = "lock"
    /\ pend[k].op = "timed_lock" /\ Holds(k, "none")

\* C12: try_lock() and try_lock_sharable() never block. An owning object that
\* is not inside another call can always make the call, whoever holds the
\* lock file, and the call is over in the caller's one step: it returns true
\* or false, leaves no call waiting, and needs no step of any other object.
C12_TryNeverBlocks ==
  /\ [][ev'.op \in TryCalls =>
          /\ ev'.ret \in {"true", "false"}
          /\ Idle(ev'.inst)
          /\ pend' = pend
          /\ OthersUntouched(m_file_lock[ev'.inst])]_vars
  /\ [](\A i \in Insts :
          (Owning(i) /\ Idle(i)) =>
             /\ ENABLED (try_lock(i) /\ ev'.ret \in {"true", "false"})
             /\ ENABLED (try_lock_sharable(i) /\ ev'.ret \in {"true", "false"}))

C12_Witness ==
  /\ ev.op = "try_lock_sharable" /\ ev.ret = "false"
  /\ Idle(ev.inst)
  /\ \E j \in Insts : ProcOf(j) # ProcOf(ev.inst) /\ SameLockFile(j, ev.inst)
                      /\ Has(j, "ex") /\ Idle(j)
  /\ \A k \in Insts : pend[k].op # "none" => pend[k].op = "lock"

\* C13: the construction of file_mutex(p, s) ends by throwing whenever the
\* operating system refused the open that creates the lock file (that
\* failure is not swallowed) and whenever no file is at p + s for the
\* file_lock to open; a construction that threw leaves no object, no open
\* handle and no lock, as does one that has not ended (the handle an object
\* opens bears the object's number); and a construction that completes
\* leaves a live object over a file at p + s.
C13_ConstructionFails ==
  /\ [][/\ (ev'.op = "ofstream" /\ OfstreamFails(ctor'[ev'.inst].errno)) => fs' = fs
        /\ ev'.op = "file_mutex(path)" =>
             LET i == ev'.inst
                 c == ctor[i]
                 lock_path == c.path \o c.suffix
             IN /\ life[i] = "constructing"
                /\ ev'.path = c.path /\ ev'.suffix = c.suffix
                /\ (OfstreamFails(c.errno) \/ ~fs[lock_path]) =>
                     ev'.ret = "interprocess_exception"
                /\ ev'.ret = "interprocess_exception" =>
                     /\ ev'.errno \in OpenErrnos \cup {"ENOENT"}
                     /\ life'[i] = "unborn"
                     /\ m_file_lock' = m_file_lock /\ h_file' = h_file
                     /\ claim' = claim /\ held' = held /\ fs' = fs
                /\ ev'.ret = "void" =>
                     /\ ev'.errno = "none"
                     /\ life'[i] = "live" /\ fs'[lock_path]]_vars
  /\ [](\A i \in Insts :
          life[i] \in {"unborn", "creating", "constructing"} =>
             /\ m_file_lock[i] = InvalidHandle
             /\ h_file[i] = NoFile /\ claim[i] = "none" /\ held[i] = "none")

\* The objects that own handle h after the step.
OwnersAfter(h) == {j \in Insts : life'[j] = "live" /\ m_file_lock'[j] = h}
\* No live object other than i has ownership of the lock file i is bound to.
NoOtherOwner(i) ==
  \A k \in Insts \ {i} : ~(SameLockFile(i, k) /\ held[m_file_lock[k]] # "none")

\* C14: destroying an object that owns a handle closes that handle, which
\* was open until then, and with it releases the exclusive or sharable lock
\* still held through it; it closes no other handle, changes what no other
\* object was told it holds, and releases no lock of another process or on
\* another file; no object owns the handle afterwards, a closed handle is
\* never owned or opened again (a handle is opened only by the construction
\* of the object whose number it bears, and an object is constructed once),
\* so nothing is released a second time; destroying an empty object releases
\* nothing; and a try_lock() of another object right after a destruction,
\* with no live object left holding the lock file, returns true.
C14_DestroyReleasesOnce ==
  /\ [][/\ ev'.op = "~file_mutex" =>
             LET i == ev'.inst
                 old == m_file_lock[i]
             IN /\ life[i] = "live" /\ life'[i] = "destroyed"
                /\ Owning(i) =>
                     /\ h_file[old] # NoFile /\ h_file'[old] = NoFile
                     /\ claim'[old] = "none" /\ held'[old] = "none"
                     /\ OwnersAfter(old) = {}
                     /\ OthersUntouched(old)
                     /\ \A h \in Handles \ {old} : h_file'[h] = h_file[h]
                /\ ~Owning(i) => h_file' = h_file /\ claim' = claim /\ held' = held
         /\ \A h \in Handles :
              /\ (h_file[h] # NoFile /\ h_file'[h] = NoFile) =>
                   ev'.op \in {"~file_mutex", "operator="}
              /\ (h_file[h] = NoFile /\ h_file'[h] # NoFile) =>
                   ev'.op = "file_mutex(path)" /\ ev'.inst = h /\ life[h] = "constructing"
         /\ \A k \in Insts :
              /\ life[k] \in {"live", "destroyed"} => life'[k] \in {"live", "destroyed"}
              /\ life[k] = "destroyed" => life'[k] = "destroyed"
         /\ (ev.op = "~file_mutex" /\ ev'.op = "try_lock" /\ NoOtherOwner(ev'.inst)) =>
              ev'.ret = "true" /\ held'[m_file_lock[ev'.inst]] = "ex"]_vars
  /\ [](\A i \in Insts : Owning(i) => h_file[m_file_lock[i]] # NoFile)

C14_Witness ==
  /\ ev.op = "try_lock" /\ ev.ret = "true"
  /\ Has(ev.inst, "ex")
  /\ h_file[m_file_lock[ev.inst]] = LockFile
  /\ \E d \in Insts : life[d] = "destroyed" /\ ProcOf(d) # ProcOf(ev.inst)
                      /\ h_file[d] = NoFile /\ claim[d] = "none"
  /\ \E k \in Insts : life[k] = "live" /\ ~Owning(k)

\* C15: a file comes to exist at a path only by the construction of a
\* file_mutex whose lock path it is, and ceases to exist there only by a
\* remove of that path that returns true; lock, try_lock, timed_lock, unlock,
\* their sharable forms, whether they return, wait, time out or throw, move
\* construction and assignment, swap and destruction leave the directory and
\* the files' content alone, and none but assignment and destruction closes
\* a handle; the lock file of a handle that a destruction closes is
\* still on disk; and a construction over a lock file already there changes
\* neither directory nor content and binds the new handle to that very file.
C15_LockFilePersists ==
  [][/\ \A p \in AllPaths :
          /\ (~fs[p] /\ fs'[p]) =>
               ev'.op = "ofstream" /\ p = ev'.path \o ev'.suffix
          /\ (fs[p] /\ ~fs'[p]) =>
               ev'.op = "remove" /\ p = ev'.path /\ ev'.ret = "true"
     /\ ev'.op \notin {"ofstream", "remove"} => fs' = fs /\ fsize' = fsize
     /\ (ev'.op = "remove" /\ ev'.ret # "true") => fs' = fs /\ fsize' = fsize
     /\ ev'.op \in ExclusiveCalls \cup SharableCalls \cup ReleaseCalls
                  \cup {"abs_time", "file_mutex(move)", "swap", "ofstream", "~ofstream"} =>
          h_file' = h_file
     /\ (ev'.op = "~file_mutex" /\ Owning(ev'.inst)) =>
          LET f == h_file[m_file_lock[ev'.inst]]
          IN f.orphan = 0 => fs'[f.path]
     /\ ev'.op = "ofstream" =>
          LET lock_path == ev'.path \o ev'.suffix
          IN /\ fs'[lock_path]
             /\ fs[lock_path] => fs' = fs /\ fsize' = fsize
     /\ (ev'.op = "file_mutex(path)" /\ ev'.ret = "void") =>
          LET lock_path == ev'.path \o ev'.suffix
          IN /\ fs[lock_path]
             /\ h_file'[m_file_lock'[ev'.inst]] = Linked(lock_path)
             /\ \A h \in Handles \ {m_file_lock'[ev'.inst]} : h_file'[h] = h_file[h]]_vars

C15_Witness ==
  /\ ev.op = "file_mutex(path)" /\ ev.ret = "void"
  /\ fs[ev.path \o ev.suffix]
  /\ \E d \in Insts :
       /\ life[d] = "destroyed" /\ h_file[d] = NoFile
       /\ \E k \in Insts \ {d, ev.inst} :
            /\ life[k] = "live" /\ m_file_lock[k] = InvalidHandle
            /\ m_file_lock[ev.inst] = ev.inst
            /\ \A h \in Handles \ {ev.inst} : h_file[h] = NoFile

\* C16 as stated: a call of lock() returns only when no other object has
\* exclusive or sharable ownership of the lock file, and returns with
\* exclusive ownership; and if from some point on no other object has any
\* ownership of the lock file of a waiting lock(), the call eventually
\* returns with exclusive ownership.
C16_PendingLockAcquires ==
  /\ [][(ev'.op = "lock" /\ ev'.ret = "void") =>
          LET h == m_file_lock[ev'.inst]
          IN /\ pend[ev'.inst].op = "lock"
             /\ ~AnyOtherHolder(h, {"sh", "ex"})
             /\ held'[h] = "ex"]_vars
  /\ \A i \in Insts :
       (<>[](~AnyOtherHolder(m_file_lock[i], {"sh", "ex"}))) =>
          ((pend[i].op = "lock") ~> (Has(i, "ex") /\ Idle(i)))

\* C16 amended: a call of lock() returns only when no other process has a
\* lock on the lock file, so when no object of another process has exclusive
\* or sharable ownership that the lock of its process stands for, and it
\* returns with exclusive ownership; it ends otherwise only by the operating
\* system refusing a wait that closes a cycle of waiting processes, which
\* takes the caller's own process to hold a lock on the file and another
\* object to hold ownership; and if from some point on no other object has
\* any ownership of the lock file of a waiting lock(), the call eventually
\* returns with exclusive ownership or has been refused in that way.
C16_LockEventuallyAcquires ==
  /\ [][/\ (ev'.op = "lock" /\ ev'.ret = "void") =>
             LET h == m_file_lock[ev'.inst]
             IN /\ pend[ev'.inst].op = "lock"
                /\ ~ForeignLock(h, {"sh", "ex"})
                /\ ~ForeignHolder(h, {"sh", "ex"})
                /\ held'[h] = "ex" /\ claim'[h] = "ex"
                /\ pend'[ev'.inst] = NoPend
        /\ (ev'.op = "lock" /\ ev'.ret \notin {"void", "waiting"}) =>
             /\ ev' = Thrown("lock", ev'.inst, "EDEADLK")
             /\ Deadlock(ev'.inst)
             /\ \E h \in Siblings(m_file_lock[ev'.inst]) : claim[h] # "none"
             /\ AnyOtherHolder(m_file_lock[ev'.inst], {"sh", "ex"})]_vars
  /\ \A i \in Insts :
       (<>[](~AnyOtherHolder(m_file_lock[i], {"sh", "ex"}))) =>
          ((pend[i].op = "lock") ~>
             ((Has(i, "ex") /\ Idle(i)) \/ ev = Thrown("lock", i, "EDEADLK")))

C16_Witness ==
  /\ ev.op = "lock" /\ ev.ret = "void"
  /\ Has(ev.inst, "ex") /\ Idle(ev.inst)
  /\ \E k \in Insts : ProcOf(k) # ProcOf(ev.inst) /\ pend[k].op = "lock"
  /\ \E j \in Insts : ProcOf(j) # ProcOf(ev.inst) /\ Idle(j) /\ Holds(j, "none")

\* w waits in lock() holding nothing, while of the objects a and b, bound to
\* the same lock file in two other processes, at least one has sharable
\* ownership, and nobody else holds or waits.
Starving(w, a, b) ==
  /\ ProcOf(a) # ProcOf(w) /\ ProcOf(b) # ProcOf(w) /\ ProcOf(a) # ProcOf(b)
  /\ SameLockFile(w, a) /\ SameLockFile(w, b)
  /\ pend[w].op = "lock" /\ Holds(w, "none")
  /\ Idle(a) /\ Idle(b)
  /\ Has(a, "sh") \/ Has(b, "sh")
  /\ Has(a, "sh") \/ Has(a, "none")
  /\ Has(b, "sh") \/ Has(b, "none")
  /\ \A k \in Insts \ {w, a, b} : Idle(k) /\ Holds(k, "none")

\* C17: an exclusive waiter can starve. Whenever w waits in lock() while a or
\* b holds sharable ownership, the call of w can neither return nor be
\* refused as a deadlock; if one of a and b
\* holds, the other can take sharable ownership beside it, and if both hold,
\* either can release, each time leaving w waiting behind a holder. These
\* steps can be repeated for ever: a and b take and release in turn, their
\* holds overlapping, and w never acquires.
C17_ExclusiveWaiterCanStarve ==
  \A w, a, b \in Insts :
    Starving(w, a, b) =>
      /\ ~ENABLED file_lock_acquire(w)
      /\ ~ENABLED file_lock_deadlock(w)
      /\ (Has(a, "sh") /\ Has(b, "none")) =>
           ENABLED (try_lock_sharable(b) /\ ev'.ret = "true"
                      /\ Starving(w, a, b)' /\ Has(a, "sh")' /\ Has(b, "sh")')
      /\ (Has(a, "sh") /\ Has(b, "sh")) =>
           ENABLED (unlock_sharable(a) /\ Starving(w, a, b)' /\ Has(a, "none")')

C17_Witness ==
  \E w, a, b \in Insts :
    /\ Starving(w, a, b)
    /\ Has(a, "sh") /\ Has(b, "sh")
    /\ ev = Event("try_lock_sharable", b, "true", "")

\* C18: remove(p) leaves every object's handle and every held lock as they
\* were, whoever holds the lock file; and when an object is constructed over
\* (p, ".lock") right after remove(p), while an older object of another
\* process constructed over the same pair still holds exclusive ownership,
\* the file then at p + ".lock", which the new object will open, is not the
\* file the older one holds.
C18_RemoveIgnoresHolders ==
  [][/\ ev'.op = "remove" =>
          /\ m_file_lock' = m_file_lock /\ life' = life
          /\ claim' = claim /\ held' = held
          /\ \A h \in Handles : (h_file'[h] = NoFile) <=> (h_file[h] = NoFile)
     /\ (ev.op = "remove" /\ ev.ret \in {"true", "false"} /\ ev.path \in Targets
           /\ ev'.op = "ofstream" /\ ev'.path = ev.path
           /\ ev'.suffix = DefaultSuffix) =>
          \A i \in Insts :
            (Has(i, "ex") /\ ProcOf(i) # ProcOf(ev'.inst)
               /\ h_file[m_file_lock[i]].path = ev.path \o DefaultSuffix) =>
              h_file'[m_file_lock'[i]] # Linked(ev.path \o DefaultSuffix)]_vars

\* C19: a = move(b) with a and b distinct leaves a owning the handle b owned
\* (none if b was empty), open as it was and with the ownership reported
\* through it, and b empty; the handle a owned before, open until then, is
\* closed with the lock held through it, no object owns it afterwards, no
\* other handle is closed, and no lock is released but those of the process
\* on the file of the closed handle; a = move(a) on an owning a leaves a
\* owning the same handle, still open, with its lock.
C19_MoveAssign ==
  [][ev'.op = "operator=" =>
       LET a == ev'.inst
           b == ev'.other
           old == m_file_lock[a]
       IN /\ life' = life
          /\ a # b =>
               /\ m_file_lock'[a] = m_file_lock[b]
               /\ m_file_lock'[b] = InvalidHandle
               /\ \A k \in Insts \ {a, b} : m_file_lock'[k] = m_file_lock[k]
               /\ old # InvalidHandle =>
                    /\ h_file[old] # NoFile /\ h_file'[old] = NoFile
                    /\ claim'[old] = "none" /\ held'[old] = "none"
                    /\ OwnersAfter(old) = {}
                    /\ OthersUntouched(old)
               /\ old = InvalidHandle => claim' = claim
               /\ \A h \in Handles \ {old} :
                    h_file'[h] = h_file[h] /\ held'[h] = held[h]
          /\ a = b =>
               /\ m_file_lock' = m_file_lock
               /\ h_file' = h_file /\ claim' = claim /\ held' = held]_vars

C19_Witness ==
  /\ ev.op = "operator=" /\ ev.other # ev.inst
  /\ m_file_lock[ev.inst] = ev.other
  /\ Holds(ev.inst, "sh")
  /\ life[ev.other] = "live" /\ m_file_lock[ev.other] = InvalidHandle
  /\ h_file[ev.inst] = NoFile
  /\ \A k \in Insts : m_file_lock[k] # ev.inst

\* What an object has of its lock file: the ownership its calls reported to
\* the caller and the lock taken through its handle that the operating system
\* still holds.
ClaimsOf(i) == {held[m_file_lock[i]], claim[m_file_lock[i]]} \ {"none"}

\* C20: an owning object has no claim, an exclusive one or a sharable one,
\* never an exclusive together with a sharable one: a lock stands only for
\* an object that was told it has ownership, the locks a process has on one
\* file through several handles are of one kind, and an object whose handle
\* is the only one of its process on the file has the lock of the kind it
\* was told. A sharable call made by an object that holds exclusive
\* ownership leaves it with sharable ownership alone once it returns with
\* success, and with its exclusive ownership alone while it waits, when it
\* is refused and when it throws; likewise an exclusive call by an object that holds sharable
\* ownership.
C20_OneKindOfClaim ==
  /\ [](\A i \in Insts :
          Owning(i) =>
             LET h == m_file_lock[i]
             IN /\ claim[h] # "none" => held[h] # "none"
                /\ SoleHandle(h) => Cardinality(ClaimsOf(i)) <= 1
                /\ \A h2 \in Siblings(h) :
                     (claim[h] # "none" /\ claim[h2] # "none") => claim[h2] = claim[h])
  /\ [][(ev'.op \in ExclusiveCalls \cup SharableCalls) =>
          LET i == ev'.inst
              h == m_file_lock[i]
              was == IF ev'.op \in ExclusiveCalls THEN "sh" ELSE "ex"
              now == IF ev'.op \in ExclusiveCalls THEN "ex" ELSE "sh"
          IN (held[h] = was /\ claim[h] = was) =>
               /\ ev'.ret \in {"true", "void"} =>
                    held'[h] = now /\ claim'[h] = now
               /\ ev'.ret \in {"false", "waiting", "interprocess_exception"} =>
                    held'[h] = was /\ claim'[h] = was]_vars

C20_Witness ==
  /\ ev.op = "try_lock" /\ ev.ret = "false"
  /\ ClaimsOf(ev.inst) = {"sh"}
  /\ \E j \in Insts : ProcOf(j) # ProcOf(ev.inst) /\ SameLockFile(j, ev.inst)
                      /\ ClaimsOf(j) = {"sh"} /\ pend[j].op = "timed_lock"
====
